---- MODULE Spec2Model ----
(***************************************************************************)
(* Model of transcribe.py: srt_timestamp, write_srt and main.              *)
(*                                                                         *)
(* Text is a sequence of one-character strings.  A Python value is a       *)
(* tagged record: [t |-> "float", ms, us] is the number of seconds         *)
(* (1000*ms + us) / 10^6 (ms may be negative, us is in 0..999),            *)
(* [t |-> "str", s] is a string, [t |-> "int", n] an integer and           *)
(* [t |-> "none"] is None.  A dict is a function from its keys.            *)
(***************************************************************************)
EXTENDS Integers, Sequences, FiniteSets, TLC

VARIABLES
    pc,         \* position of the run
    args,       \* argparse namespace of main
    fs,         \* file system: path -> [kind, data]
    fs0,        \* the file system when the run started
    calls,      \* the external / writer calls made so far, in order
    result,     \* what model.transcribe returned, None before it
    segments,   \* the segment sequence handed to write_srt
    out_path,   \* the destination path handed to write_srt
    i,          \* number of segments write_srt has fully processed
    f,          \* the text written to the open file and not yet on disk
    exit_code,  \* process exit status, -1 while running
    ts_in,      \* argument of the srt_timestamp call under test
    ts_out      \* its result

vars == <<pc, args, fs, fs0, calls, result, segments, out_path, i, f,
          exit_code, ts_in, ts_out>>

----------------------------------------------------------------------------
(* Bounds of the model *)

MaxHours == 101
MaxSegs == 2
MaxTextLen == 6

----------------------------------------------------------------------------
(* Python values *)

PyNone == [t |-> "none"]
PyFloat(m, u) == [t |-> "float", ms |-> m, us |-> u]
PyStr(s) == [t |-> "str", s |-> s]
PyInt(n) == [t |-> "int", n |-> n]

\* Python truthiness of None / str values (used by "or" and "if lang")
Truthy(v) == v.t = "str" /\ v.s # <<>>

IsNumber(v) == v.t = "float"

----------------------------------------------------------------------------
(* Decimal formatting *)

Digits == <<"0", "1", "2", "3", "4", "5", "6", "7", "8", "9">>

RECURSIVE Decimal(_)
\* str(n) / format(n, "d") for n >= 0
Decimal(n) == IF n < 10 THEN <<Digits[n + 1]>>
              ELSE Decimal(n \div 10) \o <<Digits[(n % 10) + 1]>>

RECURSIVE Zeros(_)
Zeros(k) == IF k <= 0 THEN <<>> ELSE <<"0">> \o Zeros(k - 1)

\* format(n, "0{w}d") for n >= 0: zero-padded to at least w digits
ZeroPad(n, w) == LET d == Decimal(n) IN Zeros(w - Len(d)) \o d

----------------------------------------------------------------------------
(* srt_timestamp *)

\* a slip: the absolute value instead of the clamp
ClampAbs(seconds) ==
    IF seconds.ms >= 0 THEN seconds
    ELSE IF seconds.us = 0 THEN PyFloat(0 - seconds.ms, 0)
    ELSE PyFloat(0 - seconds.ms - 1, 1000 - seconds.us)

\* if seconds < 0: seconds = 0
Clamp(seconds) == IF seconds.ms < 0 THEN PyFloat(0, 0) ELSE seconds

\* a slip: int(...) without round(), which truncates
TotalMsTruncated(seconds) == {seconds.ms}

\* int(round(td.total_seconds() * 1000)): the nearest millisecond.  On an
\* exact half (us = 500) the float product is not exact and the result is
\* either neighbour.
TotalMs(seconds) ==
    IF seconds.us < 500 THEN {seconds.ms}
    ELSE IF seconds.us > 500 THEN {seconds.ms + 1}
    ELSE {seconds.ms, seconds.ms + 1}

\* the three divmods and the f-string
FormatTs(total_ms) ==
    LET hours   == total_ms \div (3600 * 1000)
        rem1    == total_ms % (3600 * 1000)
        minutes == rem1 \div (60 * 1000)
        rem2    == rem1 % (60 * 1000)
        secs    == rem2 \div 1000
        ms      == rem2 % 1000
    IN ZeroPad(hours, 2) \o <<":">> \o ZeroPad(minutes, 2) \o <<":">>
       \o ZeroPad(secs, 2) \o <<",">> \o ZeroPad(ms, 3)

\* the set of strings srt_timestamp(seconds) can return
srt_timestamp(seconds) == {FormatTs(t) : t \in TotalMs(Clamp(seconds))}

----------------------------------------------------------------------------
(* write_srt *)

\* the characters str.strip() removes (those the model's texts can hold)
Whitespace == {" ", "\t", "\n", "\r"}

RECURSIVE LStrip(_)
LStrip(s) == IF s # <<>> /\ Head(s) \in Whitespace THEN LStrip(Tail(s)) ELSE s

RECURSIVE RStrip(_)
RStrip(s) == IF s # <<>> /\ s[Len(s)] \in Whitespace
             THEN RStrip(SubSeq(s, 1, Len(s) - 1)) ELSE s

\* str.strip()
Strip(s) == RStrip(LStrip(s))

RECURSIVE CollapseSpaces(_)
\* a slip: every run of spaces collapsed to one space
CollapseSpaces(s) ==
    IF s = <<>> THEN <<>>
    ELSE IF Len(s) >= 2 /\ s[1] = " " /\ s[2] = " "
         THEN CollapseSpaces(Tail(s))
         ELSE <<s[1]>> \o CollapseSpaces(Tail(s))

RECURSIVE ReplaceDoubleSpace(_)
\* str.replace("  ", " "): one left-to-right pass over non-overlapping matches
ReplaceDoubleSpace(s) ==
    IF s = <<>> THEN <<>>
    ELSE IF Len(s) >= 2 /\ s[1] = " " /\ s[2] = " "
         THEN <<" ">> \o ReplaceDoubleSpace(SubSeq(s, 3, Len(s)))
         ELSE <<s[1]>> \o ReplaceDoubleSpace(Tail(s))

\* seg.get("text", "").strip() followed by the replace
CleanText(s) == ReplaceDoubleSpace(Strip(s))

\* dict.get(key, default)
Get(d, key, default) == IF key \in DOMAIN d THEN d[key] ELSE default

SegStart(seg) == Get(seg, "start", PyFloat(0, 0))
SegEnd(seg) == Get(seg, "end", PyFloat(0, 0))
\* a slip: seg.get("text") with no default
SegTextNoDefault(seg) == Get(seg, "text", PyNone)

SegText(seg) == Get(seg, "text", PyStr(<<>>))

\* the loop body raises: "seconds < 0" on a value that is no number, or
\* .strip() on a value that is no string
SegRaises(seg) ==
    \/ ~IsNumber(SegStart(seg))
    \/ ~IsNumber(SegEnd(seg))
    \/ SegText(seg).t # "str"

NL == <<"\n">>
Arrow == <<" ", "-", "-", ">", " ">>

\* f"{i}\n{start} --> {end}\n{text}\n\n"
BlockText(k, start, end, text) ==
    Decimal(k) \o NL \o start \o Arrow \o end \o NL \o text \o NL \o NL

\* a slip: enumerate(segments) counts from 0
IndexFromZero(done) == done

\* enumerate(segments, start=1): the number given to the segment that
\* follows `done` processed ones
Index(done) == done + 1

\* the strings one pass of the loop body can write for segment number k
Blocks(k, seg) ==
    {BlockText(k, st, en, CleanText(SegText(seg).s)) :
        st \in srt_timestamp(SegStart(seg)), en \in srt_timestamp(SegEnd(seg))}

\* a slip: os.path.exists instead of os.path.isfile
Exists(path) == path \in DOMAIN fs

\* os.path.isfile(path)
IsFile(path) == path \in DOMAIN fs /\ fs[path].kind = "file"
IsDir(path) == path \in DOMAIN fs /\ fs[path].kind = "dir"

File(data) == [kind |-> "file", data |-> data]

\* the file system with `data` stored at `path`
Store(path, data) ==
    [p \in DOMAIN fs \cup {path} |-> IF p = path THEN File(data) ELSE fs[p]]

\* a slip: open(out_path, "a") keeps what the file held
WriteOpenAppend ==
    /\ pc = "write_open"
    /\ out_path # <<>> /\ ~IsDir(out_path)
    /\ fs' = Store(out_path, IF out_path \in DOMAIN fs THEN fs[out_path].data
                             ELSE <<>>)
    /\ f' = <<>>
    /\ i' = 0
    /\ pc' = "write_loop"
    /\ UNCHANGED <<args, fs0, calls, result, segments, out_path, exit_code,
                   ts_in, ts_out>>

\* open(out_path, "w") succeeds: the file is created or truncated
WriteOpen ==
    /\ pc = "write_open"
    /\ out_path # <<>> /\ ~IsDir(out_path)
    /\ fs' = Store(out_path, <<>>)
    /\ f' = <<>>
    /\ i' = 0
    /\ pc' = "write_loop"
    /\ UNCHANGED <<args, fs0, calls, result, segments, out_path, exit_code,
                   ts_in, ts_out>>

\* open(out_path, "w") raises (empty path, or the path is a directory)
WriteOpenFails ==
    /\ pc = "write_open"
    /\ out_path = <<>> \/ IsDir(out_path)
    /\ pc' = "raised"
    /\ UNCHANGED <<args, fs, fs0, calls, result, segments, out_path, i, f,
                   exit_code, ts_in, ts_out>>

\* one pass of the loop body; the buffered text reaches the disk now or later
WriteBlock ==
    /\ pc = "write_loop"
    /\ i < Len(segments)
    /\ ~SegRaises(segments[i + 1])
    /\ \E b \in Blocks(Index(i), segments[i + 1]) :
         \/ /\ f' = f \o b
            /\ fs' = fs
         \/ /\ f' = <<>>
            /\ fs' = Store(out_path, fs[out_path].data \o f \o b)
    /\ i' = i + 1
    /\ UNCHANGED <<pc, args, fs0, calls, result, segments, out_path,
                   exit_code, ts_in, ts_out>>

\* the loop body raises; leaving the with block closes (and flushes) the file
WriteRaise ==
    /\ pc = "write_loop"
    /\ i < Len(segments)
    /\ SegRaises(segments[i + 1])
    /\ fs' = Store(out_path, fs[out_path].data \o f)
    /\ f' = <<>>
    /\ pc' = "raised"
    /\ UNCHANGED <<args, fs0, calls, result, segments, out_path, i,
                   exit_code, ts_in, ts_out>>

\* the loop is exhausted; leaving the with block closes (and flushes) the file
WriteClose ==
    /\ pc = "write_loop"
    /\ i = Len(segments)
    /\ fs' = Store(out_path, fs[out_path].data \o f)
    /\ f' = <<>>
    /\ pc' = "write_return"
    /\ UNCHANGED <<args, fs0, calls, result, segments, out_path, i,
                   exit_code, ts_in, ts_out>>

write_srt == WriteOpen \/ WriteOpenFails \/ WriteBlock \/ WriteRaise \/ WriteClose

----------------------------------------------------------------------------
(* main *)

RECURSIVE RFind(_, _)
\* str.rfind(c), 1-based; 0 when c does not occur
RFind(p, c) == IF p = <<>> THEN 0
               ELSE IF p[Len(p)] = c THEN Len(p)
               ELSE RFind(SubSeq(p, 1, Len(p) - 1), c)

\* os.path.splitext(p)[0]: p up to its last dot, when that dot follows the
\* last "/" and some character between them is no dot; p otherwise
SplitextBase(p) ==
    LET sep == RFind(p, "/")
        dot == RFind(p, ".")
    IN IF dot > sep /\ \E k \in (sep + 1)..(dot - 1) : p[k] # "."
       THEN SubSeq(p, 1, dot - 1)
       ELSE p

\* Python's "a or b"
Or(a, b) == IF Truthy(a) THEN a ELSE b

SrtExt == <<".", "s", "r", "t">>
En == <<"e", "n">>

\* a slip: the language of the speech also when translating
LangOfSpeech(a, r) == Or(a.language, Get(r, "language", PyNone))

\* lang = "en" if args.translate else (args.language or detected)
Lang(a, r) ==
    IF a.translate THEN PyStr(En)
    ELSE Or(a.language, Get(r, "language", PyNone))

\* out_path = args.output or (f"{base}.{lang}.srt" if lang else f"{base}.srt")
OutPath(a, r) ==
    LET base == SplitextBase(a.input)
        lang == Lang(a, r)
    IN IF Truthy(a.output) THEN a.output.s
       ELSE IF Truthy(lang) THEN base \o <<".">> \o lang.s \o SrtExt
       ELSE base \o SrtExt

\* segments = result.get("segments", [])
ResultSegments(r) == Get(r, "segments", <<>>)

\* "task": "translate" if args.translate else "transcribe"
Task(a) == IF a.translate THEN "translate" ELSE "transcribe"

\* if not os.path.isfile(in_path): ... sys.exit(1)
InputNotFound ==
    /\ pc = "main"
    /\ ~IsFile(args.input)
    /\ pc' = "exit"
    /\ exit_code' = 1
    /\ UNCHANGED <<args, fs, fs0, calls, result, segments, out_path, i, f,
                   ts_in, ts_out>>

\* model = whisper.load_model(...)
LoadModel ==
    /\ pc = "main"
    /\ IsFile(args.input)
    /\ calls' = Append(calls, [op |-> "load_model"])
    /\ \/ pc' = "transcribe"
       \/ pc' = "raised"
    /\ UNCHANGED <<args, fs, fs0, result, segments, out_path, i, f,
                   exit_code, ts_in, ts_out>>

\* result = model.transcribe(in_path, **transcribe_kwargs) raises
TranscribeFails ==
    /\ pc = "transcribe"
    /\ calls' = Append(calls, [op |-> "transcribe", task |-> Task(args),
                               language |-> args.language])
    /\ pc' = "raised"
    /\ UNCHANGED <<args, fs, fs0, result, segments, out_path, i, f,
                   exit_code, ts_in, ts_out>>

\* if not segments: ... sys.exit(2)
NoSegments ==
    /\ pc = "check_segments"
    /\ ResultSegments(result) = <<>>
    /\ pc' = "exit"
    /\ exit_code' = 2
    /\ UNCHANGED <<args, fs, fs0, calls, result, segments, out_path, i, f,
                   ts_in, ts_out>>

\* a slip: the writer is called without the check for an empty list
CallWriteSrtUnchecked ==
    /\ pc = "check_segments"
    /\ segments' = ResultSegments(result)
    /\ out_path' = OutPath(args, result)
    /\ calls' = Append(calls, [op |-> "write_srt"])
    /\ pc' = "write_open"
    /\ UNCHANGED <<args, fs, fs0, result, i, f, exit_code, ts_in, ts_out>>

\* base, detected, lang, out_path; write_srt(segments, out_path) is entered
CallWriteSrt ==
    /\ pc = "check_segments"
    /\ ResultSegments(result) # <<>>
    /\ segments' = ResultSegments(result)
    /\ out_path' = OutPath(args, result)
    /\ calls' = Append(calls, [op |-> "write_srt"])
    /\ pc' = "write_open"
    /\ UNCHANGED <<args, fs, fs0, result, i, f, exit_code, ts_in, ts_out>>

\* write_srt returned; print "Done" and fall off main
Done ==
    /\ pc = "write_return"
    /\ pc' = "exit"
    /\ exit_code' = 0
    /\ UNCHANGED <<args, fs, fs0, calls, result, segments, out_path, i, f,
                   ts_in, ts_out>>

\* an exception nothing catches ends the interpreter with status 1
Uncaught ==
    /\ pc = "raised"
    /\ pc' = "exit"
    /\ exit_code' = 1
    /\ UNCHANGED <<args, fs, fs0, calls, result, segments, out_path, i, f,
                   ts_in, ts_out>>

----------------------------------------------------------------------------
(* Inputs of the runs *)

Hi == <<"H", "i">>
OldData == <<"o", "l", "d", "\n", "\n", "o", "l", "d", "\n", "\n", "x">>

\* the segments the engine returns in a run of main: k-th of a chronological
\* list, 1.5 s each
Seg(k) == [id |-> PyInt(k - 1), start |-> PyFloat(1500 * (k - 1), 0),
           end |-> PyFloat(1500 * k, 0), text |-> PyStr(<<" ">> \o Hi)]

BadSeg == [id |-> PyInt(0), start |-> PyNone, end |-> PyFloat(1500, 0),
           text |-> PyStr(Hi)]

SegLists ==
    {[k \in 1..n |-> Seg(k)] : n \in 0..MaxSegs}
    \cup {<<BadSeg>>, <<Seg(1), BadSeg>>}

Languages == {PyNone, PyStr(<<>>), PyStr(<<"f", "r">>)}
Detected == {PyNone, PyStr(<<>>), PyStr(<<"d", "e">>)}

\* what model.transcribe can return
Results ==
    {[segments |-> l, language |-> d] : l \in SegLists, d \in Detected}
    \cup {[segments |-> l] : l \in SegLists}
    \cup {[language |-> d] : d \in Detected}

InPaths == {<<"v", ".", "m">>, <<"v">>, <<".", "v">>,
            <<"d", ".", "x", "/", "v">>}
Outputs == {PyNone, PyStr(<<>>), PyStr(<<"o", ".", "s">>)}

ArgSets == [input : InPaths, output : Outputs, language : Languages,
            translate : BOOLEAN]

Dir == [kind |-> "dir", data |-> <<>>]

\* the file systems in which `paths` are absent, files or directories
FileSystems(paths) ==
    UNION {[S -> {File(OldData), Dir}] : S \in SUBSET paths}

NoArgs == [input |-> <<>>, output |-> PyNone, language |-> PyNone,
           translate |-> FALSE]
NoTs == PyFloat(0, 0)

\* result = model.transcribe(in_path, **transcribe_kwargs) returns
Transcribe ==
    /\ pc = "transcribe"
    /\ calls' = Append(calls, [op |-> "transcribe", task |-> Task(args),
                               language |-> args.language])
    /\ result' \in Results
    /\ pc' = "check_segments"
    /\ UNCHANGED <<args, fs, fs0, segments, out_path, i, f, exit_code,
                   ts_in, ts_out>>

main == \/ InputNotFound \/ LoadModel \/ Transcribe \/ TranscribeFails
        \/ NoSegments \/ CallWriteSrt \/ Done \/ Uncaught

\* a run of the script
Init ==
    /\ pc = "main"
    /\ args \in ArgSets
    /\ fs \in FileSystems({args.input}
                          \cup (IF Truthy(args.output) THEN {args.output.s}
                                ELSE {}))
    /\ fs0 = fs
    /\ calls = <<>>
    /\ result = PyNone
    /\ segments = <<>>
    /\ out_path = <<>>
    /\ i = 0
    /\ f = <<>>
    /\ exit_code = -1
    /\ ts_in = NoTs
    /\ ts_out = <<>>

Next == main \/ write_srt

Spec == Init /\ [][Next]_vars

----------------------------------------------------------------------------
(* srt_timestamp called on its own *)

HourSamples == {0, 1, 99, 100, MaxHours}

TsSamples ==
    {PyFloat(h * 3600000 + m * 60000 + sec * 1000 + k, u) :
        h \in HourSamples, m \in {0, 1, 59}, sec \in {0, 1, 59},
        k \in {0, 234, 999}, u \in {0, 499, 500, 501, 600, 999}}
    \cup {PyFloat(-1 - m, u) :
        m \in {0, 4999, 3600000 * MaxHours}, u \in {0, 500, 999}}

CallTs ==
    /\ pc = "ts_call"
    /\ ts_out' \in srt_timestamp(ts_in)
    /\ pc' = "ts_done"
    /\ UNCHANGED <<args, fs, fs0, calls, result, segments, out_path, i, f,
                   exit_code, ts_in>>

InitTs ==
    /\ pc = "ts_call"
    /\ ts_in \in TsSamples
    /\ ts_out = <<>>
    /\ args = NoArgs
    /\ fs = <<>>
    /\ fs0 = fs
    /\ calls = <<>>
    /\ result = PyNone
    /\ segments = <<>>
    /\ out_path = <<>>
    /\ i = 0
    /\ f = <<>>
    /\ exit_code = -1

NextTs == CallTs

SpecTs == InitTs /\ [][NextTs]_vars

----------------------------------------------------------------------------
(* write_srt called on its own *)

TextAlphabet == {"a", " ", "\n"}

\* every text of at most MaxTextLen characters
Texts == UNION {[1..n -> TextAlphabet] : n \in 0..MaxTextLen}

FieldSample == [start |-> PyFloat(1500, 0), end |-> PyFloat(3001, 600),
                text |-> PyStr(Hi)]

\* a segment for every subset of the fields start, end and text, and some
\* others: an id, a text to clean, a negative start, values of a wrong type
SegSamples ==
    {[k \in S |-> FieldSample[k]] : S \in SUBSET {"start", "end", "text"}}
    \cup {[id |-> PyInt(7), start |-> PyFloat(0, 0), end |-> PyFloat(1500, 0),
           text |-> PyStr(<<" ", "a", " ", " ", "b", "\n">>)],
          [start |-> PyFloat(-5000, 0), end |-> PyFloat(0, 400),
           text |-> PyStr(<<>>)],
          [start |-> PyFloat(0, 0), end |-> PyFloat(1500, 0),
           text |-> PyStr(<<"a", "\n", "\n", "b">>)],
          [start |-> PyNone, end |-> PyFloat(1500, 0), text |-> PyStr(Hi)],
          [start |-> PyFloat(0, 0), end |-> PyFloat(1500, 0),
           text |-> PyNone]}

WriteInputs ==
    UNION {[1..n -> SegSamples] : n \in 0..MaxSegs}
    \cup {<<[start |-> PyFloat(0, 0), end |-> PyFloat(1500, 0),
             text |-> PyStr(t)]>> : t \in Texts}

Dest == <<"o", ".", "s">>

InitWrite ==
    /\ pc = "write_open"
    /\ segments \in WriteInputs
    /\ out_path \in {Dest, <<>>}
    /\ fs \in {<<>>} \cup [{Dest} -> {File(<<>>), File(OldData), Dir}]
    /\ fs0 = fs
    /\ args = NoArgs
    /\ calls = <<>>
    /\ result = PyNone
    /\ i = 0
    /\ f = <<>>
    /\ exit_code = -1
    /\ ts_in = NoTs
    /\ ts_out = <<>>

NextWrite == write_srt

SpecWrite == InitWrite /\ [][NextWrite]_vars

----------------------------------------------------------------------------
(* Reading a timestamp back *)

IsDigit(c) == \E d \in 1..10 : Digits[d] = c
DigitValue(c) == (CHOOSE d \in 1..10 : Digits[d] = c) - 1

RECURSIVE Number(_)
\* the number a non-empty digit string denotes
Number(s) == IF Len(s) = 1 THEN DigitValue(s[1])
             ELSE 10 * Number(SubSeq(s, 1, Len(s) - 1)) + DigitValue(s[Len(s)])

\* the parts of "H..H:MM:SS,mmm", counted from the right
TsHH(s) == SubSeq(s, 1, Len(s) - 10)
TsMM(s) == SubSeq(s, Len(s) - 8, Len(s) - 7)
TsSS(s) == SubSeq(s, Len(s) - 5, Len(s) - 4)
TsMs(s) == SubSeq(s, Len(s) - 2, Len(s))

\* s reads HH:MM:SS,mmm: HH of two digits, or more with no leading zero
TsShape(s) ==
    /\ Len(s) >= 12
    /\ s[Len(s) - 9] = ":" /\ s[Len(s) - 6] = ":" /\ s[Len(s) - 3] = ","
    /\ \A k \in 1..Len(s) : k \notin {Len(s) - 9, Len(s) - 6, Len(s) - 3}
                              => IsDigit(s[k])
    /\ Len(TsHH(s)) > 2 => s[1] # "0"

TsMillis(s) == Number(TsHH(s)) * 3600000 + Number(TsMM(s)) * 60000
               + Number(TsSS(s)) * 1000 + Number(TsMs(s))

\* T is a millisecond count nearest to the input
Nearest(T, seconds) ==
    \/ T = seconds.ms /\ seconds.us <= 500
    \/ T = seconds.ms + 1 /\ seconds.us >= 500

ZeroTs == <<"0", "0", ":", "0", "0", ":", "0", "0", ",", "0", "0", "0">>
OneMinuteTs == <<"0", "0", ":", "0", "1", ":", "0", "0", ",", "0", "0", "0">>
HundredHoursTs ==
    <<"1", "0", "0", ":", "0", "0", ":", "0", "0", ",", "0", "0", "0">>

\* C1: for a non-negative input the result reads HH:MM:SS,mmm with MM and SS
\* in 0..59 on 2 digits, mmm in 0..999 on 3 digits, HH on 2 digits or more
\* (no clamp, no wrap from 100 hours on), and the fields add up to the
\* millisecond nearest to the input; 59.9996 s gives 00:01:00,000.
C1_TimestampFields ==
    (pc = "ts_done" /\ ts_in.ms >= 0) =>
        /\ TsShape(ts_out)
        /\ Number(TsMM(ts_out)) \in 0..59
        /\ Number(TsSS(ts_out)) \in 0..59
        /\ Number(TsMs(ts_out)) \in 0..999
        /\ Nearest(TsMillis(ts_out), ts_in)
        /\ ts_in.ms >= 100 * 3600000 => Number(TsHH(ts_out)) >= 100
        /\ ts_in = PyFloat(59999, 600) => ts_out = OneMinuteTs

\* 99:59:59.9996 carries through seconds, minutes and hours into a third
\* hour digit
C1_Witness ==
    /\ pc = "ts_done"
    /\ ts_in = PyFloat(99 * 3600000 + 59 * 60000 + 59 * 1000 + 999, 600)
    /\ ts_out = HundredHoursTs

\* C2: a negative input never raises and gives exactly 00:00:00,000.
C2_NegativeClamped ==
    ts_in.ms < 0 =>
        /\ pc = "ts_call" => ENABLED CallTs
        /\ pc = "ts_done" => ts_out = ZeroTs

C2_Witness ==
    /\ pc = "ts_done"
    /\ ts_in = PyFloat(-5000, 0)
    /\ ts_out = ZeroTs

----------------------------------------------------------------------------
(* What write_srt is expected to leave in the file *)

\* the segment with every field present
Filled(seg) ==
    [start |-> IF "start" \in DOMAIN seg THEN seg.start ELSE PyFloat(0, 0),
     end   |-> IF "end" \in DOMAIN seg THEN seg.end ELSE PyFloat(0, 0),
     text  |-> IF "text" \in DOMAIN seg THEN seg.text ELSE PyStr(<<>>)]

\* every field of the segment has the type the data model gives it
WellTyped(seg) ==
    /\ Filled(seg).start.t = "float"
    /\ Filled(seg).end.t = "float"
    /\ Filled(seg).text.t = "str"

\* the caption blocks of number k for a segment carrying all three fields
ExpectedBlocks(k, seg) ==
    {Decimal(k) \o <<"\n">> \o st \o <<" ", "-", "-", ">", " ">> \o en
       \o <<"\n">> \o CleanText(seg.text.s) \o <<"\n", "\n">> :
        st \in srt_timestamp(seg.start), en \in srt_timestamp(seg.end)}

RECURSIVE ExpectedContents(_, _)
\* the blocks of the first n segments, numbered 1..n, one after the other
ExpectedContents(segs, n) ==
    IF n = 0 THEN {<<>>}
    ELSE {c \o b : c \in ExpectedContents(segs, n - 1),
                   b \in ExpectedBlocks(n, Filled(segs[n]))}

OnDisk == fs[out_path].data

\* C3: write_srt writes exactly n blocks in input order, the k-th being k,
\* the two timestamps, the cleaned text and an empty line; k is the output
\* position from 1 on, whatever id the segment carries.
C3_BlocksInOrder ==
    /\ pc = "write_loop" => OnDisk \o f \in ExpectedContents(segments, i)
    /\ pc = "write_return" =>
          /\ i = Len(segments)
          /\ OnDisk \in ExpectedContents(segments, Len(segments))

\* two segments written, the second carrying the id 7
C3_Witness ==
    /\ pc = "write_return"
    /\ Len(segments) = 2
    /\ "id" \in DOMAIN segments[2] /\ segments[2].id = PyInt(7)
    /\ Len(OnDisk) > 0
    /\ OnDisk \in ExpectedContents(segments, 2)

----------------------------------------------------------------------------
(* The text line *)

\* s without its leading and trailing whitespace, by positions
Trimmed(s) ==
    LET keep == {k \in 1..Len(s) : s[k] \notin Whitespace}
    IN IF keep = {} THEN <<>>
       ELSE SubSeq(s, CHOOSE k \in keep : \A j \in keep : k <= j,
                      CHOOSE k \in keep : \A j \in keep : k >= j)

\* where the run of spaces holding position k starts
RunStart(s, k) ==
    CHOOSE a \in 1..k :
        /\ \A j \in a..k : s[j] = " "
        /\ a = 1 \/ s[a - 1] # " "

\* position k survives: no space, or at an even offset within its run
Survives(s, k) == s[k] # " " \/ (k - RunStart(s, k)) % 2 = 0

RECURSIVE Survivors(_, _)
Survivors(s, n) ==
    IF n = 0 THEN <<>>
    ELSE Survivors(s, n - 1) \o (IF Survives(s, n) THEN <<s[n]>> ELSE <<>>)

\* every run of n spaces cut to ceil(n/2), nothing else changed
HalvedRuns(s) == Survivors(s, Len(s))

TextLine(t) ==
    <<"1", "\n">> \o ZeroTs \o <<" ", "-", "-", ">", " ">>
    \o <<"0", "0", ":", "0", "0", ":", "0", "1", ",", "5", "0", "0">>
    \o <<"\n">> \o t \o <<"\n", "\n">>

\* C7: the text line is the text without leading and trailing whitespace,
\* with every interior run of n spaces cut to ceil(n/2) (2 gives 1, 3 gives
\* 2, 4 gives 2) and no other character changed.
C7_TextLine ==
    (pc = "write_return" /\ Len(segments) = 1
       /\ DOMAIN segments[1] = {"start", "end", "text"}
       /\ segments[1].start = PyFloat(0, 0)
       /\ segments[1].end = PyFloat(1500, 0)
       /\ segments[1].text.t = "str") =>
        LET t == segments[1].text.s IN
        /\ OnDisk = TextLine(HalvedRuns(Trimmed(t)))
        /\ t = <<"a", " ", " ", "a">> => OnDisk = TextLine(<<"a", " ", "a">>)
        /\ t = <<"a", " ", " ", " ", "a">>
              => OnDisk = TextLine(<<"a", " ", " ", "a">>)
        /\ t = <<"a", " ", " ", " ", " ", "a">>
              => OnDisk = TextLine(<<"a", " ", " ", "a">>)

\* three interior spaces come out as two
C7_Witness ==
    /\ pc = "write_return"
    /\ Len(segments) = 1
    /\ DOMAIN segments[1] = {"start", "end", "text"}
    /\ segments[1].text = PyStr(<<"\n", "a", " ", " ", " ", "a">>)
    /\ OnDisk = TextLine(<<"a", " ", " ", "a">>)

----------------------------------------------------------------------------
(* The file read back as blocks *)

RECURSIVE SplitLines(_, _)
\* s split at every line break; cur is the line being read
SplitLines(s, cur) ==
    IF s = <<>> THEN <<cur>>
    ELSE IF Head(s) = "\n" THEN <<cur>> \o SplitLines(Tail(s), <<>>)
    ELSE SplitLines(Tail(s), Append(cur, Head(s)))

RECURSIVE GroupBlocks(_, _)
\* the maximal runs of non-empty lines; cur is the run being read
GroupBlocks(lines, cur) ==
    IF lines = <<>> THEN (IF cur = <<>> THEN <<>> ELSE <<cur>>)
    ELSE IF Head(lines) = <<>>
         THEN (IF cur = <<>> THEN <<>> ELSE <<cur>>)
              \o GroupBlocks(Tail(lines), <<>>)
         ELSE GroupBlocks(Tail(lines), Append(cur, Head(lines)))

\* the content split on blank lines
FileBlocks(data) == GroupBlocks(SplitLines(data, <<>>), <<>>)

TimeLines(seg) ==
    {st \o <<" ", "-", "-", ">", " ">> \o en :
        st \in srt_timestamp(seg.start), en \in srt_timestamp(seg.end)}

\* C8: for n segments with any texts, the file split on blank lines holds
\* exactly n blocks, the k-th beginning with the line k and then the line
\* of the two timestamps of the k-th segment.
C8_SplitGivesNBlocks ==
    pc = "write_return" =>
        LET blocks == FileBlocks(OnDisk) IN
        /\ Len(blocks) = Len(segments)
        /\ \A k \in 1..Len(blocks) :
              /\ Len(blocks[k]) >= 2
              /\ blocks[k][1] = Decimal(k)
              /\ blocks[k][2] \in TimeLines(Filled(segments[k]))

----------------------------------------------------------------------------
(* Missing fields *)

\* the blocks of number k of a segment, each missing field replaced by
\* what 0.0 and the empty string give
DefaultedBlocks(k, seg) ==
    {Decimal(k) \o <<"\n">> \o st \o <<" ", "-", "-", ">", " ">> \o en
       \o <<"\n">> \o (IF "text" \in DOMAIN seg THEN CleanText(seg.text.s)
                       ELSE <<>>) \o <<"\n", "\n">> :
        st \in IF "start" \in DOMAIN seg THEN srt_timestamp(seg.start)
               ELSE {ZeroTs},
        en \in IF "end" \in DOMAIN seg THEN srt_timestamp(seg.end)
               ELSE {ZeroTs}}

EndsWith(s, b) ==
    Len(s) >= Len(b) /\ SubSeq(s, Len(s) - Len(b) + 1, Len(s)) = b

AllMissingBlock ==
    <<"1", "\n">> \o ZeroTs \o <<" ", "-", "-", ">", " ">> \o ZeroTs
    \o <<"\n", "\n", "\n">>

\* open() succeeded before the exception
RaisedInLoop == pc = "raised" /\ IsFile(out_path)

\* C9: a segment lacking any of start, end and text does not make
\* write_srt fail and is written as if start and end were 0.0 and the text
\* empty; present fields are used as they are and later blocks keep their
\* numbers.
C9_MissingFieldsDefault ==
    /\ RaisedInLoop =>
          \E k \in {"start", "end", "text"} :
              /\ k \in DOMAIN segments[i + 1]
              /\ segments[i + 1][k].t # (IF k = "text" THEN "str" ELSE "float")
    /\ (pc \in {"write_loop", "write_return"} /\ i >= 1) =>
          \E b \in DefaultedBlocks(i, segments[i]) : EndsWith(OnDisk \o f, b)
    /\ (pc = "write_return" /\ Len(segments) >= 1
          /\ DOMAIN segments[1] \cap {"start", "end", "text"} = {}) =>
          SubSeq(OnDisk, 1, Len(AllMissingBlock)) = AllMissingBlock

\* a segment with no field, then one with a start only, numbered 2
C9_Witness ==
    /\ pc = "write_return"
    /\ Len(segments) = 2
    /\ DOMAIN segments[1] = {}
    /\ DOMAIN segments[2] = {"start"}
    /\ OnDisk = AllMissingBlock
                \o <<"2", "\n">>
                \o <<"0", "0", ":", "0", "0", ":", "0", "1", ",", "5", "0", "0">>
                \o <<" ", "-", "-", ">", " ">> \o ZeroTs
                \o <<"\n", "\n", "\n">>

----------------------------------------------------------------------------
(* The destination file *)

\* C10: whatever the destination held, after a normal return it holds
\* exactly the blocks of the segments (an empty file for no segment); during
\* the call it holds the whole blocks of the first j segments, for some j
\* not above the number processed, and a failure on segment j+1 leaves the
\* j blocks written before it.
C10_FileContent ==
    /\ pc = "write_return" =>
          /\ IsFile(out_path)
          /\ OnDisk \in ExpectedContents(segments, Len(segments))
          /\ Len(segments) = 0 => OnDisk = <<>>
    /\ pc = "write_loop" =>
          /\ IsFile(out_path)
          /\ \E j \in 0..i : OnDisk \in ExpectedContents(segments, j)
    /\ RaisedInLoop =>
          /\ i < Len(segments)
          /\ OnDisk \in ExpectedContents(segments, i)
    /\ \A p \in DOMAIN fs0 : p # out_path => (p \in DOMAIN fs /\ fs[p] = fs0[p])

\* the second segment fails; the first block replaced the old content
C10_Witness ==
    /\ pc = "raised"
    /\ fs0 = (Dest :> File(OldData))
    /\ i = 1
    /\ Len(segments) = 2
    /\ IsFile(out_path)
    /\ Len(OnDisk) > 0
    /\ OnDisk \in ExpectedContents(segments, 1)

----------------------------------------------------------------------------
(* Runs of main *)

Called(op) == \E k \in 1..Len(calls) : calls[k].op = op

InWriter == pc \in {"write_open", "write_loop", "write_return"}

\* the input path named a regular file when the run started
InputWasFile ==
    args.input \in DOMAIN fs0 /\ fs0[args.input].kind = "file"

\* C4: when the input path is no existing regular file the run ends with
\* exit code 1 and nothing else happens: no model is loaded, transcribe and
\* write_srt are not called and no file is created or changed.
C4_InputNotFound ==
    ~InputWasFile =>
        /\ pc \in {"main", "exit"}
        /\ pc = "exit" => exit_code = 1
        /\ calls = <<>>
        /\ result = PyNone
        /\ fs = fs0

\* the input path names a directory
C4_Witness ==
    /\ pc = "exit"
    /\ exit_code = 1
    /\ args.input \in DOMAIN fs0
    /\ fs0[args.input].kind = "dir"
    /\ calls = <<>>

Returned == result # PyNone

NoSegmentsReturned ==
    "segments" \notin DOMAIN result \/ result.segments = <<>>

\* C5: when transcribe returns an empty or absent segment list the run ends
\* with exit code 2, write_srt is never called and no file is created or
\* changed; write_srt is called, and exit code 0 reached, only when at
\* least one segment was returned.
C5_EmptyResult ==
    /\ (Returned /\ NoSegmentsReturned) =>
          /\ pc \in {"check_segments", "exit"}
          /\ pc = "exit" => exit_code = 2
          /\ ~Called("write_srt")
          /\ fs = fs0
    /\ (Called("write_srt") \/ InWriter \/ exit_code = 0) =>
          /\ Returned
          /\ "segments" \in DOMAIN result
          /\ Len(result.segments) >= 1

\* no segment list at all, and -o names an existing file
C5_Witness ==
    /\ pc = "exit"
    /\ exit_code = 2
    /\ Returned
    /\ "segments" \notin DOMAIN result
    /\ Truthy(args.output)
    /\ args.output.s \in DOMAIN fs
    /\ fs[args.output.s] = File(OldData)
    /\ ~Called("write_srt")

\* the input path without its extension, for each input of the model
ExpectedBase(input) ==
    CASE input = <<"v", ".", "m">> -> <<"v">>
      [] input = <<"v">> -> <<"v">>
      [] input = <<".", "v">> -> <<".", "v">>
      [] input = <<"d", ".", "x", "/", "v">> -> <<"d", ".", "x", "/", "v">>

\* an option or a detected language that is there: a non-empty string
Given(v) == v.t = "str" /\ Len(v.s) > 0

DetectedLanguage ==
    IF "language" \in DOMAIN result THEN result.language ELSE PyNone

\* the path for a language choice
PathFor(lang) ==
    IF Given(args.output) THEN args.output.s
    ELSE IF Given(lang)
         THEN ExpectedBase(args.input) \o <<".">> \o lang.s
              \o <<".", "s", "r", "t">>
         ELSE ExpectedBase(args.input) \o <<".", "s", "r", "t">>

====
